---------------------------- MODULE Spec2Model ----------------------------
(***************************************************************************)
(* Model of the Redis remote-cache client of cache/redis_client.go:        *)
(* GetMulti (batched, gated multi-get), SetAsync / Delete (asynchronous    *)
(* writes through the base client's queue), Stop, and the startup          *)
(* (Validate, NewRedisClient).                                             *)
(*                                                                         *)
(* redis_client.go is the only file under src/.  The helpers it calls      *)
(* (doWithBatch, gate.Gate, baseClient.setAsync / delete, asyncQueue) are  *)
(* modelled from the specification's sections 4.1 - 4.4 and 5.             *)
(***************************************************************************)
EXTENDS Integers, Naturals, Sequences, FiniteSets, Bags, TLC

\* ---------------------------------------------------------------- bounds
MaxKeys == 3
MaxGateKeys == 2
MaxGate == 2
MaxBatch == 2
MaxOps == 3

Calls == {"g1", "g2"}
Stoppers == {"s1", "s2"}
Keys == {"a", "b"}
\* Redis string values, as byte sequences of different lengths.
Values == {<<7>>, <<8, 9>>}

\* The maximum item sizes configured: negative, unbounded (0), and the
\* lengths of the values.
ItemSizes == {-1, 0, 1}
\* The async buffer sizes and worker counts configured.
BufferSizes == {1, 2}
WorkerCounts == {1, 2}
WorkerIds == UNION {1..n : n \in WorkerCounts}
\* The key the asynchronous writes are about.
AsyncKeys == {"a"}

KeySeqs == UNION {[1..n -> Keys] : n \in 0..MaxKeys}
Stores == UNION {[S -> Values] : S \in SUBSET Keys}

VARIABLES
    config,     \* RedisClientConfig fields the client reads
    client,     \* startup: what Validate answered, what NewRedisClient returned
    store,      \* backend contents: key -> value, absent = not stored
    call,       \* per GetMulti call: pc, keys, i, cancelled, results, ret
    batches,    \* per GetMulti call: the batch callbacks launched so far
    gate,       \* getMultiGate: permits currently held
    metrics,    \* c.metrics: operations / dataSize / duration for get_multi
    ops,        \* the SetAsync / Delete calls made so far, with their outcome
    queue,      \* asyncQueue: ids of the tasks accepted and not yet dequeued
    workers,    \* asyncQueue: each worker's state and the task it runs
    stopped,    \* asyncQueue: stop() has been signalled
    closed,     \* the redis UniversalClient has been closed
    stopPc      \* per Stop() call: where it is

getVars == <<call, batches, gate, metrics>>
asyncVars == <<ops, queue, workers, stopped, closed, stopPc>>
vars == <<config, client, store, call, batches, gate, metrics,
          ops, queue, workers, stopped, closed, stopPc>>

\* ------------------------------------------------------------- helpers
Min(a, b) == IF a < b THEN a ELSE b

\* A nil map as GetMulti returns it, and a non-nil map.
NilMap == [nil |-> TRUE, m |-> <<>>]
MapOf(m) == [nil |-> FALSE, m |-> m]

\* The values a redis MGET reply holds at one position.
RespString(v) == [t |-> "string", v |-> v]
RespNil == [t |-> "nil"]
RespOther == [t |-> "other"]

\* Mutant of stringToBytes: the slice is one byte shorter than the string.
stringToBytesShort(s) == [i \in 1..(Len(s) - 1) |-> s[i]]

\* stringToBytes: a byte slice of length and capacity len(s) over the
\* string's own bytes.
stringToBytes(s) == [i \in 1..Len(s) |-> s[i]]

\* c.getMultiGate is set only when MaxGetMultiConcurrency > 0.
HasGate == config.MaxGetMultiConcurrency > 0


\* ------------------------------------------------------- construction
\* Mutant of GateSize: the gate is made one permit too large.
GateSizeOffByOne == config.MaxGetMultiConcurrency + 1

\* NewRedisClient: gate.New(reg, config.MaxGetMultiConcurrency) when > 0.
GateSize == config.MaxGetMultiConcurrency

\* uint64(x) of an int, as four 16-bit limbs, most significant first
\* (two's complement for a negative x of small magnitude).
LimbBase == 65536
Uint64(x) ==
    IF x >= 0 THEN <<0, 0, 0, x>>
    ELSE <<LimbBase - 1, LimbBase - 1, LimbBase - 1, LimbBase + x>>

RECURSIVE LessU64(_, _, _)
LessU64(a, b, i) ==
    IF i > 4 THEN FALSE
    ELSE IF a[i] # b[i] THEN a[i] < b[i]
    ELSE LessU64(a, b, i + 1)

\* Mutant of maxItemSize: the buffer size is passed as the maximum item size.
maxItemSizeFromBuffer == Uint64(config.MaxAsyncBufferSize)

\* Mutant of asyncConcurrency: the buffer size is passed as the concurrency.
asyncConcurrencyFromBuffer == config.MaxAsyncBufferSize

\* Mutant of asyncBuffSize: the concurrency is passed as the buffer size.
asyncBuffSizeFromConcurrency == config.MaxAsyncConcurrency

\* newBaseClient(logger, uint64(config.MaxItemSize),
\*               config.MaxAsyncBufferSize, config.MaxAsyncConcurrency, metrics)
maxItemSize == Uint64(config.MaxItemSize)
asyncBuffSize == config.MaxAsyncBufferSize
asyncConcurrency == config.MaxAsyncConcurrency

\* The configurations of the read path; the write path's fields are fixed.
Configs ==
    [Endpoint : {"redis:6379"},
     TLSEnabled : {FALSE},
     MaxGetMultiConcurrency : 0..MaxGate,
     GetMultiBatchSize : 1..MaxBatch,
     MaxItemSize : {0},
     MaxAsyncBufferSize : {1},
     MaxAsyncConcurrency : {1}]

\* The configurations of the write path; the read path's fields are fixed.
AsyncConfigs ==
    [Endpoint : {"redis:6379"},
     TLSEnabled : {FALSE},
     MaxGetMultiConcurrency : {0},
     GetMultiBatchSize : {1},
     MaxItemSize : ItemSizes,
     MaxAsyncBufferSize : BufferSizes,
     MaxAsyncConcurrency : WorkerCounts]

IdleWorker == [st |-> "idle", op |-> 0]

\* A client whose configuration passed Validate and that NewRedisClient returned.
RunningClient == [validated |-> "ok", state |-> "running"]

InitAsyncVars ==
    /\ ops = <<>>
    /\ queue = <<>>
    /\ workers = [w \in 1..asyncConcurrency |-> IdleWorker]
    /\ stopped = FALSE
    /\ closed = FALSE
    /\ stopPc = [s \in Stoppers |-> "idle"]

IdleCall ==
    [pc |-> "idle", keys |-> <<>>, i |-> 0, cancelled |-> FALSE,
     results |-> <<>>, ret |-> NilMap]

Init ==
    /\ config \in Configs
    /\ client = RunningClient
    /\ store \in Stores
    /\ call = [c \in Calls |-> IdleCall]
    /\ batches = [c \in Calls |-> <<>>]
    /\ gate = 0
    /\ metrics = [operations |-> 0, dataSize |-> EmptyBag, duration |-> 0]
    /\ InitAsyncVars

\* ------------------------------------------------------------ GetMulti
\* Mutant of currentKeys: the slice's upper index is left out.
currentKeysToEnd(keys, startIndex, endIndex) ==
    SubSeq(keys, startIndex + 1, Len(keys))

\* currentKeys := keys[startIndex:endIndex]
currentKeys(keys, startIndex, endIndex) == SubSeq(keys, startIndex + 1, endIndex)

\* Mutant of mergeResp: a miss or an unexpected type stores an empty value.
RECURSIVE mergeRespPlaceholder(_, _, _, _)
mergeRespPlaceholder(results, ck, resp, i) ==
    IF i > Len(resp) THEN results
    ELSE LET key == ck[i]
             val == resp[i]
             next == [k \in DOMAIN results \cup {key} |->
                        IF k = key
                        THEN (IF val.t = "string" THEN stringToBytes(val.v) ELSE <<>>)
                        ELSE results[k]]
         IN mergeRespPlaceholder(next, ck, resp, i + 1)

\* The loop over resp: a string is a hit, stored under the key at the same
\* position; nil is a miss; any other type is logged and skipped.
RECURSIVE mergeResp(_, _, _, _)
mergeResp(results, ck, resp, i) ==
    IF i > Len(resp) THEN results
    ELSE LET key == ck[i]
             val == resp[i]
             next == IF val.t = "string"
                     THEN [k \in DOMAIN results \cup {key} |->
                              IF k = key THEN stringToBytes(val.v) ELSE results[k]]
                     ELSE results
         IN mergeResp(next, ck, resp, i + 1)

\* cacheHitBytes: the sum of len(val) over the string positions of resp.
RECURSIVE cacheHitBytes(_, _)
cacheHitBytes(resp, i) ==
    IF i > Len(resp) THEN 0
    ELSE (IF resp[i].t = "string" THEN Len(resp[i].v) ELSE 0)
         + cacheHitBytes(resp, i + 1)

\* Mutant of GetMultiResult: results is dropped, nil is returned.
GetMultiResultDiscards(err, results) == NilMap

\* if err != nil { ...; return nil }; return results
GetMultiResult(err, results) == IF err THEN NilMap ELSE MapOf(results)

\* Mutant of GetMulti: the len(keys) == 0 check is left out.
GetMultiNoEmptyCheck(c, ks) ==
    /\ call[c].pc = "idle"
    /\ call' = [call EXCEPT ![c] =
                  [@ EXCEPT !.pc = IF Len(ks) = 0 THEN "wait" ELSE "dispatch",
                            !.keys = ks, !.i = 0, !.results = <<>>]]
    /\ UNCHANGED <<config, client, store, batches, gate, metrics, asyncVars>>

\* GetMulti entry: len(keys) == 0 returns nil at once; otherwise the result
\* map is made and doWithBatch is entered.
GetMulti(c, ks) ==
    /\ call[c].pc = "idle"
    /\ call' = [call EXCEPT ![c] =
                  IF Len(ks) = 0
                  THEN [@ EXCEPT !.pc = "done", !.keys = ks, !.ret = NilMap]
                  ELSE [@ EXCEPT !.pc = "dispatch", !.keys = ks, !.i = 0,
                                 !.results = <<>>]]
    /\ UNCHANGED <<config, client, store, batches, gate, metrics, asyncVars>>

\* doWithBatch, one iteration of its loop: the next range [i, j) with
\* j = min(i + batchSize, totalSize); a gate permit is acquired (blocking
\* while none is free) and the callback is launched concurrently.
DispatchBatch(c) ==
    LET n == Len(call[c].keys)
        i == call[c].i
        j == Min(i + config.GetMultiBatchSize, n)
    IN /\ call[c].pc = "dispatch"
       /\ i < n
       /\ HasGate => gate < GateSize
       /\ gate' = IF HasGate THEN gate + 1 ELSE gate
       /\ batches' = [batches EXCEPT ![c] =
                        Append(@, [start |-> i, end |-> j, st |-> "launched",
                                   keys |-> <<>>, resp |-> <<>>,
                                   err |-> FALSE])]
       /\ call' = [call EXCEPT ![c].i = j,
                               ![c].pc = IF j >= n THEN "wait" ELSE "dispatch"]
       /\ UNCHANGED <<config, client, store, metrics, asyncVars>>

\* The error doWithBatch hands to GetMulti when the gate's acquire fails on
\* a cancelled context: none, the cancellation stays inside doWithBatch.
acquireFailedErr == FALSE

\* The error doWithBatch hands to GetMulti after waiting for the callbacks:
\* the error of a callback that returned one.
waitErr(c) == \E b \in DOMAIN batches[c] : batches[c][b].err

\* doWithBatch when the gate's acquire fails on a cancelled context: no
\* further batch is launched and the call returns what was merged so far
\* (the batches already launched keep running).
DispatchCancelled(c) ==
    /\ call[c].pc = "dispatch"
    /\ call[c].i < Len(call[c].keys)
    /\ HasGate
    /\ call[c].cancelled
    /\ call' = [call EXCEPT ![c].pc = "done",
                            ![c].ret = GetMultiResult(acquireFailedErr,
                                                     call[c].results)]
    /\ UNCHANGED <<config, client, store, batches, gate, metrics, asyncVars>>

\* The caller's context is cancelled while the call is in progress.
Cancel(c) ==
    /\ call[c].pc \in {"dispatch", "wait"}
    /\ ~call[c].cancelled
    /\ call' = [call EXCEPT ![c].cancelled = TRUE]
    /\ UNCHANGED <<config, client, store, batches, gate, metrics, asyncVars>>

\* The batch callback up to its backend call: start time taken, the
\* get_multi operation counter incremented, MGet issued with currentKeys.
BatchStart(c, b) ==
    /\ b \in DOMAIN batches[c]
    /\ batches[c][b].st = "launched"
    /\ metrics' = [metrics EXCEPT !.operations = @ + 1]
    /\ batches' = [batches EXCEPT ![c][b].st = "mget",
                     ![c][b].keys = currentKeys(call[c].keys,
                                                batches[c][b].start,
                                                batches[c][b].end)]
    /\ UNCHANGED <<config, client, store, call, gate, asyncVars>>

\* Mutant of mgetFailedReturn: the callback returns the MGet error.
mgetFailedReturnsErr == TRUE

\* What the callback returns after a failed MGet: the failure is logged and
\* nil (no error) is returned.
mgetFailedReturn == FALSE

\* Mutant of BatchMGetErr: the failure path ends without the permit's release.
BatchMGetErrKeepsPermit(c, b) ==
    /\ b \in DOMAIN batches[c]
    /\ batches[c][b].st = "mget"
    /\ batches' = [batches EXCEPT ![c][b].st = "failed",
                                  ![c][b].err = FALSE]
    /\ UNCHANGED <<config, client, store, call, gate, metrics, asyncVars>>

\* MGet returned an error: logged, the callback returns nil; the permit is
\* released as the callback ends.
BatchMGetErr(c, b) ==
    /\ b \in DOMAIN batches[c]
    /\ batches[c][b].st = "mget"
    /\ batches' = [batches EXCEPT ![c][b].st = "failed",
                                  ![c][b].err = mgetFailedReturn]
    /\ gate' = IF HasGate THEN gate - 1 ELSE gate
    /\ UNCHANGED <<config, client, store, call, metrics, asyncVars>>

\* The backend's reply to MGet(keys): one element per key, in order; the
\* stored string or nil, or (at the positions in odd) a value of another type.
MGetReply(ks, odd) ==
    [p \in 1..Len(ks) |->
        IF p \in odd THEN RespOther
        ELSE IF ks[p] \in DOMAIN store THEN RespString(store[ks[p]])
        ELSE RespNil]

\* MGet returned a reply.  Under the mutex the reply is merged into results,
\* the payload size and the duration are observed; the callback returns and
\* its permit is released.
BatchMGetOk(c, b) ==
    /\ b \in DOMAIN batches[c]
    /\ batches[c][b].st = "mget"
    /\ \E odd \in SUBSET (1..Len(batches[c][b].keys)) :
         LET resp == MGetReply(batches[c][b].keys, odd)
         IN /\ call' = [call EXCEPT ![c].results =
                          mergeResp(@, batches[c][b].keys, resp, 1)]
            /\ metrics' = [metrics EXCEPT
                     !.dataSize = @ (+) SetToBag({cacheHitBytes(resp, 1)}),
                     !.duration = @ + 1]
            /\ batches' = [batches EXCEPT ![c][b].st = "merged",
                                          ![c][b].resp = resp]
    /\ gate' = IF HasGate THEN gate - 1 ELSE gate
    /\ UNCHANGED <<config, client, store, asyncVars>>

BatchFinished(r) == r.st \in {"failed", "merged"}

\* doWithBatch's wait for every launched callback, and GetMulti's return.
GetMultiReturn(c) ==
    /\ call[c].pc = "wait"
    /\ \A b \in DOMAIN batches[c] : BatchFinished(batches[c][b])
    /\ call' = [call EXCEPT ![c].pc = "done",
                            ![c].ret = GetMultiResult(waitErr(c), call[c].results)]
    /\ UNCHANGED <<config, client, store, batches, gate, metrics, asyncVars>>

\* One GetMulti call, over every key sequence.
NextGet ==
    \/ \E ks \in KeySeqs : GetMulti("g1", ks)
    \/ DispatchBatch("g1")
    \/ DispatchCancelled("g1")
    \/ Cancel("g1")
    \/ \E b \in 1..MaxKeys : BatchStart("g1", b)
    \/ \E b \in 1..MaxKeys : BatchMGetErr("g1", b)
    \/ \E b \in 1..MaxKeys : BatchMGetOk("g1", b)
    \/ GetMultiReturn("g1")

Spec == Init /\ [][NextGet]_vars

\* Concurrent GetMulti calls sharing the gate, over sequences of one key.
GateKeySeqs == UNION {[1..n -> {"a"}] : n \in 0..MaxGateKeys}

InitGate == Init /\ store = [k \in {"a"} |-> <<7>>]

NextGate ==
    \/ \E c \in Calls, ks \in GateKeySeqs : GetMulti(c, ks)
    \/ \E c \in Calls : DispatchBatch(c)
    \/ \E c \in Calls : DispatchCancelled(c)
    \/ \E c \in Calls : Cancel(c)
    \/ \E c \in Calls, b \in 1..MaxGateKeys : BatchStart(c, b)
    \/ \E c \in Calls, b \in 1..MaxGateKeys : BatchMGetErr(c, b)
    \/ \E c \in Calls, b \in 1..MaxGateKeys : BatchMGetOk(c, b)
    \/ \E c \in Calls : GetMultiReturn(c)

SpecGate == InitGate /\ [][NextGate]_vars

\* ------------------------------------------------------ async writes
\* SizeGuard: with a maximum of 0 everything is permitted, otherwise the
\* values of at most maxItemSize bytes.
permits(value) ==
    \/ maxItemSize = Uint64(0)
    \/ ~LessU64(maxItemSize, Uint64(Len(value)), 1)

\* asyncQueue.enqueue: accepted while the queue is not stopped and holds
\* fewer than bufferSize tasks; never waits.
canEnqueue == ~stopped /\ Len(queue) < asyncBuffSize

NewOp(kind, key, value, ret) ==
    [kind |-> kind, key |-> key, value |-> value, ret |-> ret,
     execs |-> 0, result |-> "none"]

\* baseClient.setAsync: the size check, then the enqueue of a task running f.
setAsync(key, value, f) ==
    LET ret == IF ~permits(value) THEN "size"
               ELSE IF ~canEnqueue THEN "full"
               ELSE "ok"
    IN /\ ops' = Append(ops, NewOp(f, key, value, ret))
       /\ queue' = IF ret = "ok" THEN Append(queue, Len(ops) + 1) ELSE queue
       /\ UNCHANGED <<config, client, store, getVars, workers, stopped, closed, stopPc>>

\* baseClient.delete: the enqueue of a task running f; no size check.
delete(key, f) ==
    LET ret == IF ~canEnqueue THEN "full" ELSE "ok"
    IN /\ ops' = Append(ops, NewOp(f, key, <<>>, ret))
       /\ queue' = IF ret = "ok" THEN Append(queue, Len(ops) + 1) ELSE queue
       /\ UNCHANGED <<config, client, store, getVars, workers, stopped, closed, stopPc>>

\* Mutant of SetAsync: c.Set is also called inline, whatever setAsync returns.
SetAsyncAlsoInline(key, value) ==
    /\ Len(ops) < MaxOps
    /\ LET ret == IF ~permits(value) THEN "size"
                  ELSE IF ~canEnqueue THEN "full"
                  ELSE "ok"
       IN /\ ops' = Append(ops, [NewOp("Set", key, value, ret) EXCEPT !.execs = 1])
          /\ queue' = IF ret = "ok" THEN Append(queue, Len(ops) + 1) ELSE queue
          /\ UNCHANGED <<config, client, store, getVars, workers, stopped, closed, stopPc>>

\* Mutant of SetAsync: c.Set is called inline and its error is returned.
SetAsyncSynchronous(key, value) ==
    /\ Len(ops) < MaxOps
    /\ \E ok \in BOOLEAN :
         /\ ops' = Append(ops, [NewOp("Set", key, value,
                                      IF ok THEN "ok" ELSE "backend")
                                   EXCEPT !.execs = 1,
                                          !.result = IF ok THEN "ok" ELSE "err"])
         /\ store' = IF ok
                     THEN [k \in DOMAIN store \cup {key} |->
                              IF k = key THEN value ELSE store[k]]
                     ELSE store
    /\ UNCHANGED <<config, client, getVars, queue, workers, stopped, closed, stopPc>>

\* SetAsync: c.setAsync with a closure that calls c.Set(ctx, key, value, ttl).
SetAsync(key, value) ==
    /\ Len(ops) < MaxOps
    /\ setAsync(key, value, "Set")

\* Delete: c.delete with a closure that calls c.Del(ctx, key).
Delete(key) ==
    /\ Len(ops) < MaxOps
    /\ delete(key, "Del")

\* What the task's closure does to the backend when its call succeeds.
closureEffect(op) ==
    IF op.kind = "Set"
    THEN [k \in DOMAIN store \cup {op.key} |->
             IF k = op.key THEN op.value ELSE store[k]]
    ELSE [k \in DOMAIN store \ {op.key} |-> store[k]]

\* A worker takes the next task and runs it: the closure's backend call starts.
\* A worker that has not yet seen the stop signal may still take a task.
WorkerDequeue(w) ==
    /\ w \in DOMAIN workers
    /\ workers[w].st = "idle"
    /\ queue # <<>>
    /\ workers' = [workers EXCEPT ![w] = [st |-> "running", op |-> Head(queue)]]
    /\ queue' = Tail(queue)
    /\ ops' = [ops EXCEPT ![Head(queue)].execs = @ + 1]
    /\ UNCHANGED <<config, client, store, getVars, stopped, closed, stopPc>>

\* The backend call of the running task returns; an error is only logged.
WorkerFinish(w, ok) ==
    /\ w \in DOMAIN workers
    /\ workers[w].st = "running"
    /\ ok => ~closed
    /\ store' = IF ok THEN closureEffect(ops[workers[w].op]) ELSE store
    /\ ops' = [ops EXCEPT ![workers[w].op].result = IF ok THEN "ok" ELSE "err"]
    /\ workers' = [workers EXCEPT ![w] = IdleWorker]
    /\ UNCHANGED <<config, client, getVars, queue, stopped, closed, stopPc>>

\* A worker between tasks sees the stop signal and exits.
WorkerExit(w) ==
    /\ w \in DOMAIN workers
    /\ workers[w].st = "idle"
    /\ stopped
    /\ workers' = [workers EXCEPT ![w] = [st |-> "exited", op |-> 0]]
    /\ UNCHANGED <<config, client, store, getVars, ops, queue, stopped, closed, stopPc>>

\* ---------------------------------------------------------------- Stop
\* Mutant of StopBegin: Stop goes straight to c.Close(), the queue is not
\* stopped.
StopBeginSkipsQueue(s) ==
    /\ stopPc[s] = "idle"
    /\ stopPc' = [stopPc EXCEPT ![s] = "closing"]
    /\ UNCHANGED <<config, client, store, getVars, ops, queue, workers, stopped, closed>>

\* Mutant of StopBegin: the two statements of Stop are swapped, c.Close()
\* comes first.
StopBeginClosesFirst(s) ==
    /\ stopPc[s] = "idle"
    /\ closed' = TRUE
    /\ stopped' = TRUE
    /\ stopPc' = [stopPc EXCEPT ![s] = "stopping"]
    /\ UNCHANGED <<config, client, store, getVars, ops, queue, workers>>

\* Stop, first statement: c.asyncQueue.stop() is called and signals the stop.
StopBegin(s) ==
    /\ stopPc[s] = "idle"
    /\ stopped' = TRUE
    /\ stopPc' = [stopPc EXCEPT ![s] = "stopping"]
    /\ UNCHANGED <<config, client, store, getVars, ops, queue, workers, closed>>

\* asyncQueue.stop() returns once every worker has exited.
StopQueueStopped(s) ==
    /\ stopPc[s] = "stopping"
    /\ \A w \in DOMAIN workers : workers[w].st = "exited"
    /\ stopPc' = [stopPc EXCEPT ![s] = "closing"]
    /\ UNCHANGED <<config, client, store, getVars, ops, queue, workers, stopped, closed>>

\* Mutant of StopClose: Stop returns without closing the client.
StopCloseSkipped(s) ==
    /\ stopPc[s] = "closing"
    /\ stopPc' = [stopPc EXCEPT ![s] = "returned"]
    /\ UNCHANGED <<config, client, store, getVars, ops, queue, workers, stopped, closed>>

\* Stop, second statement: c.Close(); an error (already closed) is logged.
StopClose(s) ==
    /\ stopPc[s] = "closing"
    /\ closed' = TRUE
    /\ stopPc' = [stopPc EXCEPT ![s] = "returned"]
    /\ UNCHANGED <<config, client, store, getVars, ops, queue, workers, stopped>>

InitAsync ==
    /\ config \in AsyncConfigs
    /\ client = RunningClient
    /\ store = <<>>
    /\ call = [c \in Calls |-> IdleCall]
    /\ batches = [c \in Calls |-> <<>>]
    /\ gate = 0
    /\ metrics = [operations |-> 0, dataSize |-> EmptyBag, duration |-> 0]
    /\ InitAsyncVars

NextAsync ==
    \/ \E key \in AsyncKeys, value \in Values : SetAsync(key, value)
    \/ \E key \in AsyncKeys : Delete(key)
    \/ \E w \in WorkerIds : WorkerDequeue(w)
    \/ \E w \in WorkerIds, ok \in BOOLEAN : WorkerFinish(w, ok)
    \/ \E w \in WorkerIds : WorkerExit(w)
    \/ \E s \in Stoppers : StopBegin(s)
    \/ \E s \in Stoppers : StopQueueStopped(s)
    \/ \E s \in Stoppers : StopClose(s)

SpecAsync == InitAsync /\ [][NextAsync]_vars

\* ==================================================================
\* Properties of GetMulti
\* ==================================================================
BatchesIn(c, states) == {b \in DOMAIN batches[c] : batches[c][b].st \in states}

\* The batch callbacks whose MGet call is executing in the backend.
MGetRunning ==
    {cb \in Calls \X (1..MaxKeys) :
        /\ cb[2] \in DOMAIN batches[cb[1]]
        /\ batches[cb[1]][cb[2]].st = "mget"}

\* The <<key, string>> pairs a batch's reply holds as hits.
HitPairs(r) ==
    {<<r.keys[p], r.resp[p].v>> :
        p \in {q \in 1..Len(r.resp) : r.resp[q].t = "string"}}

\* The hits of the batches of call c that have been merged.
MergedHits(c) == UNION {HitPairs(batches[c][b]) : b \in BatchesIn(c, {"merged"})}

\* Map m holds every hit of hits, each key with a value hit for that key.
HoldsHits(m, hits) ==
    \A h \in hits :
        /\ h[1] \in DOMAIN m
        /\ \E g \in hits : g[1] = h[1] /\ m[h[1]] = g[2]

\* Every entry of map m is a hit of hits.
OnlyHits(m, hits) ==
    \A k \in DOMAIN m : \E g \in hits : g[1] = k /\ m[k] = g[2]

RECURSIVE ConcatKeys(_, _)
ConcatKeys(bs, b) ==
    IF b > Len(bs) THEN <<>> ELSE bs[b].keys \o ConcatKeys(bs, b + 1)

\* C1: with MaxGetMultiConcurrency = K > 0, the number of MGet batch calls
\* executing at the same time never exceeds K, over all concurrent GetMulti
\* calls and however many batches they have.
C1_GateBound ==
    config.MaxGetMultiConcurrency > 0
        => Cardinality(MGetRunning) <= config.MaxGetMultiConcurrency

\* K = 1, one MGet executing, while both calls are in progress and one of
\* them waits at the gate with batches still to launch.
C1_Witness ==
    /\ config.MaxGetMultiConcurrency = 1
    /\ Cardinality(MGetRunning) = 1
    /\ \A c \in Calls : call[c].pc \in {"dispatch", "wait"}
    /\ \E c \in Calls : call[c].pc = "dispatch" /\ Len(call[c].keys) = 2
                        /\ call[c].i = 0

\* C2: a GetMulti call that returns with its context cancelled returns a
\* non-nil map holding the hits of every batch merged before it returned.
C2_CancelledReturnKeepsHits ==
    [][\A c \in Calls :
          (call[c].pc # "done" /\ call'[c].pc = "done" /\ call[c].cancelled)
              => /\ ~call'[c].ret.nil
                 /\ HoldsHits(call'[c].ret.m, MergedHits(c))]_vars

\* A call returned on a failed acquire (batches left unlaunched) with the
\* hits of a merged batch in its result.
C2_Witness ==
    \E c \in Calls :
        /\ call[c].pc = "done"
        /\ call[c].cancelled
        /\ call[c].i < Len(call[c].keys)
        /\ MergedHits(c) # {}
        /\ ~call[c].ret.nil
        /\ DOMAIN call[c].ret.m # {}

\* A call whose batches were all launched and have all ended.
AllBatchesEnded(c) ==
    /\ call[c].pc = "done"
    /\ Len(call[c].keys) > 0
    /\ call[c].i = Len(call[c].keys)

\* C3 as claimed: when a batch failed and the others succeeded, the result is
\* a map with every hit of the successful batches and with no entry for any
\* key of the failed batch.
C3_FailedBatchKeysAbsent ==
    \A c \in Calls :
        (AllBatchesEnded(c) /\ BatchesIn(c, {"failed"}) # {})
            => /\ ~call[c].ret.nil
               /\ HoldsHits(call[c].ret.m, MergedHits(c))
               /\ \A b \in BatchesIn(c, {"failed"}) :
                    \A p \in DOMAIN batches[c][b].keys :
                        batches[c][b].keys[p] \notin DOMAIN call[c].ret.m

\* C3, amended: when a batch failed and the others succeeded, the result is a
\* map with every hit of the successful batches, and an entry for a key of
\* the failed batch only when a successful batch asked for the same key and
\* got a hit.
C3_FailedBatchOnlySiblingHits ==
    \A c \in Calls :
        (AllBatchesEnded(c) /\ BatchesIn(c, {"failed"}) # {})
            => /\ ~call[c].ret.nil
               /\ HoldsHits(call[c].ret.m, MergedHits(c))
               /\ \A b \in BatchesIn(c, {"failed"}) :
                    \A p \in DOMAIN batches[c][b].keys :
                        batches[c][b].keys[p] \in DOMAIN call[c].ret.m
                            => \E g \in MergedHits(c) : g[1] = batches[c][b].keys[p]

\* A call returned with one batch failed, another merged with a hit in the
\* result, and a key of the failed batch absent from the result.
C3_Witness ==
    \E c \in Calls :
        /\ AllBatchesEnded(c)
        /\ Cardinality(BatchesIn(c, {"failed"})) = 1
        /\ MergedHits(c) # {}
        /\ HoldsHits(call[c].ret.m, MergedHits(c))
        /\ \E b \in BatchesIn(c, {"failed"}) :
             batches[c][b].keys[1] \notin DOMAIN call[c].ret.m

\* C4: a GetMulti of N > 0 keys with batch size B that was not cancelled has
\* issued exactly ceil(N/B) MGet calls, each with a contiguous slice
\* keys[start:end] of at most B keys, the slices following one another from
\* 0 to N and concatenating to the key sequence.
C4_Partition ==
    \A c \in Calls :
        (call[c].pc = "done" /\ ~call[c].cancelled /\ Len(call[c].keys) > 0)
            => LET n == Len(call[c].keys)
                   B == config.GetMultiBatchSize
                   bs == batches[c]
               IN /\ Len(bs) = (n + B - 1) \div B
                  /\ \A b \in DOMAIN bs :
                       /\ bs[b].st \in {"merged", "failed"}
                       /\ bs[b].keys = SubSeq(call[c].keys, bs[b].start + 1, bs[b].end)
                       /\ Len(bs[b].keys) >= 1
                       /\ Len(bs[b].keys) <= B
                       /\ bs[b].start = (IF b = 1 THEN 0 ELSE bs[b - 1].end)
                  /\ bs[Len(bs)].end = n
                  /\ ConcatKeys(bs, 1) = call[c].keys

\* Three distinct-order keys in batches of two: two MGet calls, the last with
\* one key.
C4_Witness ==
    \E c \in Calls :
        /\ call[c].pc = "done"
        /\ ~call[c].cancelled
        /\ call[c].keys = <<"a", "b", "a">>
        /\ config.GetMultiBatchSize = 2
        /\ Len(batches[c]) = 2
        /\ batches[c][2].keys = <<"a">>

\* C10: the result map (while being built and as returned) holds only
\* requested keys, each with the bytes of a string the backend returned for
\* that key at its position in a merged batch; a merged batch's nil or
\* unexpected replies add no entry and do not keep its hits out.
C10_OnlyRequestedHits ==
    \A c \in Calls :
        /\ \A k \in DOMAIN call[c].results :
             \E p \in DOMAIN call[c].keys : call[c].keys[p] = k
        /\ OnlyHits(call[c].results, MergedHits(c))
        /\ HoldsHits(call[c].results, MergedHits(c))
        /\ \A k \in DOMAIN call[c].ret.m :
             \E p \in DOMAIN call[c].keys : call[c].keys[p] = k
        /\ OnlyHits(call[c].ret.m, MergedHits(c))

\* A merged batch whose reply held a string and an unexpected value, another
\* whose reply held nil, and a returned result with the hit alone.
C10_Witness ==
    \E c \in Calls :
        /\ call[c].pc = "done"
        /\ \E b \in BatchesIn(c, {"merged"}) :
             /\ \E p \in DOMAIN batches[c][b].resp : batches[c][b].resp[p].t = "other"
             /\ \E p \in DOMAIN batches[c][b].resp : batches[c][b].resp[p].t = "string"
        /\ \E b \in BatchesIn(c, {"merged"}) :
             \E p \in DOMAIN batches[c][b].resp : batches[c][b].resp[p].t = "nil"
        /\ Cardinality(DOMAIN call[c].ret.m) = 1

\* ==================================================================
\* Properties of SetAsync, Delete and Stop
\* ==================================================================
StopReturned == \E s \in Stoppers : stopPc[s] = "returned"

InQueue(id) == \E i \in DOMAIN queue : queue[i] = id

\* A SetAsync whose value is longer than a configured maximum > 0.
Oversized(op) ==
    /\ op.kind = "Set"
    /\ config.MaxItemSize > 0
    /\ Len(op.value) > config.MaxItemSize

\* This step is a SetAsync or Delete call.
IsCall == Len(ops') = Len(ops) + 1

LastOp == ops[Len(ops)]

AllWorkers(st) == \A w \in DOMAIN workers : workers[w].st = st

\* C5: a SetAsync whose value is longer than the maximum item size > 0
\* returns the size error, leaves the queue as it was, and its Set is never
\* executed.
C5_OversizedRejected ==
    [][/\ \A id \in DOMAIN ops' :
            Oversized(ops'[id])
                => /\ ops'[id].ret = "size"
                   /\ ops'[id].execs = 0
                   /\ ~InQueue(id)'
       /\ (IsCall /\ Oversized(LastOp')) => queue' = queue]_vars

\* An oversized SetAsync was refused while the queue had room, and a
\* permitted one was accepted and executed.
C5_Witness ==
    /\ Len(ops) >= 2
    /\ \E id \in DOMAIN ops : Oversized(ops[id]) /\ ops[id].ret = "size"
    /\ \E id \in DOMAIN ops : ops[id].kind = "Set" /\ ops[id].result = "ok"
    /\ ~stopped
    /\ queue = <<>>

\* C6 as claimed: once Stop has returned, every SetAsync or Delete call
\* returns the queue-full/closed error and no backend call is started.
C6_AfterStopQueueFull ==
    [][StopReturned
          => /\ IsCall => (LastOp'.ret = "full" /\ LastOp'.execs = 0)
             /\ \A id \in DOMAIN ops : ops'[id].execs = ops[id].execs]_vars

\* C6, amended: once Stop has returned, every SetAsync or Delete call returns
\* an error (the size error for an oversized value, the queue-full/closed
\* error otherwise), nothing is enqueued and no backend call is started.
C6_AfterStopRejected ==
    [][StopReturned
          => /\ IsCall
                  => /\ LastOp'.ret = (IF Oversized(LastOp') THEN "size" ELSE "full")
                     /\ LastOp'.execs = 0
                     /\ queue' = queue
             /\ \A id \in DOMAIN ops : ops'[id].execs = ops[id].execs]_vars

\* After Stop returned, a permitted SetAsync and a Delete were both refused
\* with the queue-full/closed error.
C6_Witness ==
    /\ StopReturned
    /\ Len(ops) >= 2
    /\ ops[1].ret = "ok"
    /\ LastOp.kind = "Del" /\ LastOp.ret = "full"
    /\ ops[Len(ops) - 1].kind = "Set" /\ ops[Len(ops) - 1].ret = "full"
    /\ Len(queue) < config.MaxAsyncBufferSize

\* C7: once one Stop call has returned, the queue is stopped, every worker
\* has exited, the client is closed and enqueueing is refused; a further Stop
\* call (begun before or after) is never blocked and none of its steps
\* changes any of that.
C7_StopIdempotent ==
    [][/\ StopReturned'
            => /\ stopped' /\ closed' /\ ~canEnqueue'
               /\ AllWorkers("exited")'
       /\ StopReturned
            => /\ stopped' = stopped /\ closed' = closed
               /\ workers' = workers /\ queue' = queue /\ store' = store
               /\ \A s \in Stoppers :
                    (stopPc[s] # "returned") => ENABLED
                        (StopBegin(s) \/ StopQueueStopped(s) \/ StopClose(s))]_vars

\* Both Stop calls have returned: the queue is stopped with tasks left in
\* it, the client is closed.
C7_Witness ==
    /\ \A s \in Stoppers : stopPc[s] = "returned"
    /\ stopped /\ closed
    /\ queue # <<>>

\* C8: with the queue holding bufferSize tasks, a SetAsync of a permitted
\* size or a Delete returns the queue-full error in that one step, changing
\* neither the queue nor any worker; and a call can always be made, whatever
\* the workers are doing.
C8_EnqueueNeverBlocks ==
    /\ [](Len(ops) < MaxOps
            => \A key \in AsyncKeys :
                 /\ ENABLED Delete(key)
                 /\ \A value \in Values : ENABLED SetAsync(key, value))
    /\ [][(IsCall /\ Len(queue) = config.MaxAsyncBufferSize
                  /\ (LastOp'.kind = "Set" => permits(LastOp'.value)))
             => /\ LastOp'.ret = "full"
                /\ queue' = queue
                /\ workers' = workers]_vars

\* The queue is full, every worker is inside a backend call, and the last
\* call was refused with the queue-full error.
C8_Witness ==
    /\ ~stopped
    /\ Len(queue) = config.MaxAsyncBufferSize
    /\ AllWorkers("running")
    /\ Len(ops) > 0
    /\ LastOp.ret = "full"

\* C9: a task is executed at most once, and only after leaving the queue; a
\* call refused at enqueue (oversized, queue full, stopped) is never queued
\* and never executed.
C9_AtMostOnce ==
    \A id \in DOMAIN ops :
        /\ ops[id].execs <= 1
        /\ Cardinality({i \in DOMAIN queue : queue[i] = id}) + ops[id].execs
              <= (IF ops[id].ret = "ok" THEN 1 ELSE 0)
        /\ Cardinality({w \in DOMAIN workers :
                           workers[w].st = "running" /\ workers[w].op = id})
              <= ops[id].execs
        /\ ops[id].result # "none" => ops[id].execs = 1

\* One task executed to completion, one call refused for size and one for a
\* full queue.
C9_Witness ==
    /\ \E id \in DOMAIN ops : ops[id].execs = 1 /\ ops[id].result = "ok"
    /\ \E id \in DOMAIN ops : ops[id].ret = "size"
    /\ \E id \in DOMAIN ops : ops[id].ret = "full"

\* ==================================================================
\* Properties of the return of GetMulti
\* ==================================================================
\* C11: GetMulti returns only after every batch it launched has completed
\* and every merge is done: once a call has returned, none of its batch
\* callbacks is pending or running, and the map it returned (the results
\* map itself) is as it was at the return.
C11_ReturnsAfterAllBatches ==
    \A c \in Calls :
        (call[c].pc = "done" /\ Len(call[c].keys) > 0)
            => /\ \A b \in DOMAIN batches[c] : BatchFinished(batches[c][b])
               /\ ~call[c].ret.nil => call[c].ret.m = call[c].results

\* ==================================================================
\* Writes followed by a read
\* ==================================================================
\* The configurations of a write followed by a read.
RoundConfigs ==
    [Endpoint : {"redis:6379"},
     TLSEnabled : {FALSE},
     MaxGetMultiConcurrency : {0, 1},
     GetMultiBatchSize : {1},
     MaxItemSize : {0, 1},
     MaxAsyncBufferSize : {1},
     MaxAsyncConcurrency : WorkerCounts]

\* The backend holds nothing, or a value under the key written.
RoundStores == {<<>>} \cup {[k \in {key} |-> <<7>>] : key \in AsyncKeys}

RoundKeySeqs == {<<key>> : key \in AsyncKeys}

InitRound ==
    /\ config \in RoundConfigs
    /\ client = RunningClient
    /\ store \in RoundStores
    /\ call = [c \in Calls |-> IdleCall]
    /\ batches = [c \in Calls |-> <<>>]
    /\ gate = 0
    /\ metrics = [operations |-> 0, dataSize |-> EmptyBag, duration |-> 0]
    /\ InitAsyncVars

\* The queue is drained: no task is queued and none is being executed.
Drained ==
    /\ queue = <<>>
    /\ \A w \in DOMAIN workers : workers[w].st # "running"

\* SetAsync and Delete calls, then, once the queue is drained, one GetMulti
\* of the key.
NextRound ==
    \/ /\ call["g1"].pc = "idle"
       /\ \E key \in AsyncKeys, value \in Values : SetAsync(key, value)
    \/ /\ call["g1"].pc = "idle"
       /\ \E key \in AsyncKeys : Delete(key)
    \/ \E w \in WorkerIds : WorkerDequeue(w)
    \/ \E w \in WorkerIds, ok \in BOOLEAN : WorkerFinish(w, ok)
    \/ /\ Drained
       /\ \E ks \in RoundKeySeqs : GetMulti("g1", ks)
    \/ DispatchBatch("g1")
    \/ DispatchCancelled("g1")
    \/ Cancel("g1")
    \/ BatchStart("g1", 1)
    \/ BatchMGetErr("g1", 1)
    \/ BatchMGetOk("g1", 1)
    \/ GetMultiReturn("g1")

SpecRound == InitRound /\ [][NextRound]_vars

\* The calls that were accepted (their task was queued).
Accepted == {id \in DOMAIN ops : ops[id].ret = "ok"}

\* The accepted call made last.
LastAccepted == CHOOSE id \in Accepted : \A o \in Accepted : o <= id

\* The GetMulti call got the backend's reply for its key and returned.
ServedRead ==
    /\ call["g1"].pc = "done"
    /\ Len(batches["g1"]) = 1
    /\ batches["g1"][1].st = "merged"
    /\ \A p \in DOMAIN batches["g1"][1].resp : batches["g1"][1].resp[p].t # "other"

\* C12: with a backend that stores and serves what it is given, an accepted
\* SetAsync(key, v) followed, after the queue has drained, by GetMulti([key])
\* returns exactly {key: v}, and an accepted Delete(key) followed, after the
\* drain, by GetMulti([key]) returns a map with no entry for key.  (With
\* several accepted writes the last one counts when one worker runs them in
\* order.)
C12_RoundTrip ==
    (/\ ServedRead
     /\ Accepted # {}
     /\ \A id \in Accepted : ops[id].result = "ok"
     /\ (Cardinality(Accepted) = 1 \/ config.MaxAsyncConcurrency = 1))
        => LET op == ops[LastAccepted]
           IN /\ call["g1"].keys = <<op.key>>
              /\ ~call["g1"].ret.nil
              /\ IF op.kind = "Set"
                 THEN call["g1"].ret.m = [k \in {op.key} |-> op.value]
                 ELSE call["g1"].ret.m = <<>>

\* The backend held <<7>> under the key; SetAsync(key, <<8, 9>>) was accepted
\* and executed, and the GetMulti after the drain returned {key: <<8, 9>>}.
C12_Witness ==
    /\ ServedRead
    /\ Cardinality(Accepted) = 1
    /\ ops[LastAccepted].result = "ok"
    /\ ops[LastAccepted].kind = "Set"
    /\ ops[LastAccepted].value = <<8, 9>>
    /\ batches["g1"][1].resp[1] = RespString(<<8, 9>>)
    /\ call["g1"].ret = MapOf([k \in {ops[LastAccepted].key} |-> <<8, 9>>])

\* An accepted Delete of a key the backend held was executed and the
\* GetMulti after the drain returned an empty map.
C12_DeleteRead ==
    /\ ServedRead
    /\ Cardinality(Accepted) = 1
    /\ ops[LastAccepted].result = "ok"
    /\ ops[LastAccepted].kind = "Del"
    /\ Len(ops) = 1
    /\ call["g1"].ret = MapOf(<<>>)

\* ==================================================================
\* Properties of the asynchronous writes, continued
\* ==================================================================
\* What the synchronous pre-flight of a call answers in the current state.
PreFlight(op) ==
    IF Oversized(op) THEN "size"
    ELSE IF stopped \/ Len(queue) >= config.MaxAsyncBufferSize THEN "full"
    ELSE "ok"

\* C13: the value SetAsync or Delete returns is the outcome of the
\* synchronous pre-flight (size check, enqueue) alone: it is fixed before
\* any backend call of the task, and never changes afterwards, whether the
\* backend Set/Delete later succeeds or fails.  A failing backend call
\* changes nothing a caller can observe: backend contents, queue, earlier
\* return values and the stop/close state stay as they were.
C13_ReturnIsPreFlight ==
    [][/\ \A id \in DOMAIN ops : ops'[id].ret = ops[id].ret
       /\ IsCall => /\ LastOp'.ret = PreFlight(LastOp')
                    /\ LastOp'.execs = 0
                    /\ LastOp'.result = "none"
                    /\ store' = store
       /\ (\E id \in DOMAIN ops : ops[id].result # "err" /\ ops'[id].result = "err")
            => /\ store' = store
               /\ queue' = queue
               /\ stopped' = stopped /\ closed' = closed
               /\ getVars' = getVars
               /\ \A id \in DOMAIN ops : ops'[id].execs = ops[id].execs]_vars

\* Two accepted calls returned success; the backend call of one succeeded,
\* that of the other failed.
C13_Witness ==
    /\ \E id \in DOMAIN ops :
         ops[id].ret = "ok" /\ ops[id].result = "err" /\ ops[id].kind = "Set"
    /\ \E id \in DOMAIN ops : ops[id].ret = "ok" /\ ops[id].result = "ok"
    /\ \E id \in DOMAIN ops : ops[id].ret = "ok" /\ ops[id].kind = "Del"

\* ==================================================================
\* Properties of GetMulti, continued
\* ==================================================================
\* C14: GetMulti with an empty key list returns nil in its first step: no
\* batch is launched (no MGet), no gate permit is acquired and no operation
\* metric is touched, then or later.
C14_EmptyKeysNoEffect ==
    /\ [][\A c \in Calls :
            (call[c].pc = "idle" /\ call'[c].pc # "idle" /\ Len(call'[c].keys) = 0)
                => /\ call'[c].pc = "done"
                   /\ call'[c].ret = NilMap
                   /\ batches' = batches
                   /\ gate' = gate
                   /\ metrics' = metrics
                   /\ store' = store]_vars
    /\ [](\A c \in Calls :
            (call[c].pc # "idle" /\ Len(call[c].keys) = 0)
                => /\ call[c].pc = "done"
                   /\ call[c].ret = NilMap
                   /\ batches[c] = <<>>
                   /\ gate = 0
                   /\ metrics.operations = 0)

\* A call with no keys has returned nil; nothing was counted.
C14_Witness ==
    \E c \in Calls :
        /\ call[c].pc = "done"
        /\ call[c].keys = <<>>
        /\ call[c].ret = NilMap
        /\ metrics.operations = 0
        /\ gate = 0

\* The batches of all calls that hold a gate permit: launched, not ended.
PermitHolders ==
    {cb \in Calls \X (1..MaxKeys) :
        /\ cb[2] \in DOMAIN batches[cb[1]]
        /\ ~BatchFinished(batches[cb[1]][cb[2]])}

\* No GetMulti call is in progress: each has not started or has returned.
NoCallInProgress == \A c \in Calls : call[c].pc \in {"idle", "done"}

\* C15: gate permits are conserved: the permits held are those of the
\* batches launched and not yet ended, one each, so every acquire is
\* followed by one release on every exit path; and whenever no GetMulti
\* call is in progress, no permit is held.
C15_PermitsConserved ==
    /\ HasGate => gate = Cardinality(PermitHolders)
    /\ ~HasGate => gate = 0
    /\ NoCallInProgress => gate = 0

\* The conservation half of C15 alone: one permit per batch launched and
\* not yet ended, and none left once every batch has ended.
C15_PermitPerRunningBatch ==
    /\ HasGate => gate = Cardinality(PermitHolders)
    /\ ~HasGate => gate = 0
    /\ [][gate' # gate =>
            \/ gate' = gate + 1 /\ Cardinality(PermitHolders') = Cardinality(PermitHolders) + 1
            \/ gate' = gate - 1 /\ Cardinality(PermitHolders') = Cardinality(PermitHolders) - 1]_vars

\* Concurrent GetMulti calls over a gate of one permit.
InitGateFair == InitGate /\ config.MaxGetMultiConcurrency = 1

\* Concurrent GetMulti calls under fair scheduling: the dispatch loop, every
\* launched callback and the return keep running, and every MGet call
\* issued returns (with a reply or an error).
SpecGateFair ==
    /\ InitGateFair
    /\ [][NextGate]_vars
    /\ \A c \in Calls :
         /\ WF_vars(DispatchBatch(c) \/ DispatchCancelled(c))
         /\ WF_vars(GetMultiReturn(c))
         /\ \A b \in 1..MaxGateKeys :
              /\ WF_vars(BatchStart(c, b))
              /\ WF_vars(BatchMGetOk(c, b) \/ BatchMGetErr(c, b))

\* C16: every GetMulti call eventually returns, given that each MGet call
\* eventually returns and scheduling is fair; concurrent calls with more
\* batches than the gate has permits (here one) do not deadlock.
C16_EventuallyReturns ==
    \A c \in Calls :
        (call[c].pc \in {"dispatch", "wait"}) ~> (call[c].pc = "done")

\* One permit, two calls of two batches each, neither cancelled: both have
\* returned with every batch ended.
C16_Witness ==
    /\ config.MaxGetMultiConcurrency = 1
    /\ \A c \in Calls :
         /\ call[c].pc = "done"
         /\ ~call[c].cancelled
         /\ Len(batches[c]) = 2
         /\ \A b \in DOMAIN batches[c] : BatchFinished(batches[c][b])
    /\ gate = 0

\* The workers inside a task's backend call.
RunningWorkers == {w \in DOMAIN workers : workers[w].st = "running"}

\* C17: the number of queued tasks never exceeds the configured async
\* buffer size, and the number of backend Set/Delete calls executing at the
\* same time never exceeds the configured async concurrency.
C17_QueueAndWorkersBounded ==
    /\ Len(queue) <= config.MaxAsyncBufferSize
    /\ Cardinality(RunningWorkers) <= config.MaxAsyncConcurrency
    /\ Cardinality(DOMAIN workers) <= config.MaxAsyncConcurrency

\* Buffer size 1 and concurrency 2: the queue is full with one task while
\* two backend calls execute.
C17_Witness ==
    /\ config.MaxAsyncBufferSize = 1
    /\ config.MaxAsyncConcurrency = 2
    /\ Len(queue) = 1
    /\ Cardinality(RunningWorkers) = 2
    /\ Len(ops) > 0 /\ LastOp.ret = "ok"

\* The payload sizes of the batches of call c that have ended: the hit
\* bytes of a merged batch's reply, none for a failed MGet.
RECURSIVE EndedSizes(_, _)
EndedSizes(c, b) ==
    IF b > Len(batches[c]) THEN EmptyBag
    ELSE (IF BatchFinished(batches[c][b])
          THEN SetToBag({cacheHitBytes(batches[c][b].resp, 1)})
          ELSE EmptyBag) (+) EndedSizes(c, b + 1)

\* C18: for every batch dispatched to the backend, whether its MGet
\* succeeds or fails, the get_multi counter is incremented exactly once and
\* there is exactly one duration observation and one payload-size
\* observation, equal to the sum of the byte lengths of the batch's hits;
\* after a GetMulti of ceil(N/B) batches each metric has ceil(N/B) new
\* records.
C18_MetricsPerBatch ==
    LET c == "g1"
        started == BatchesIn(c, {"mget", "merged", "failed"})
        ended == BatchesIn(c, {"merged", "failed"})
    IN /\ metrics.operations = Cardinality(started)
       /\ metrics.duration = Cardinality(ended)
       /\ metrics.dataSize = EndedSizes(c, 1)
       /\ (call[c].pc = "done" /\ ~call[c].cancelled /\ Len(call[c].keys) > 0)
            => LET n == Len(call[c].keys)
                   B == config.GetMultiBatchSize
               IN /\ metrics.operations = (n + B - 1) \div B
                  /\ metrics.duration = (n + B - 1) \div B
                  /\ BagCardinality(metrics.dataSize) = (n + B - 1) \div B

\* What holds of the metrics: the counter counts every batch dispatched,
\* duration and payload size are observed for the merged batches only.
C18_MetricsOfMergedBatches ==
    LET c == "g1"
    IN /\ metrics.operations =
              Cardinality(BatchesIn(c, {"mget", "merged", "failed"}))
       /\ metrics.duration = Cardinality(BatchesIn(c, {"merged"}))
       /\ BagCardinality(metrics.dataSize) = Cardinality(BatchesIn(c, {"merged"}))

\* C19: Stop shuts down the queue first and the backend second: the backend
\* is closed only when the queue has stopped accepting work and every worker
\* has finished its task and exited; from then on no worker starts or runs a
\* backend Set/Delete and no call is accepted.
C19_QueueBeforeBackend ==
    /\ [](closed => /\ stopped
                    /\ AllWorkers("exited")
                    /\ RunningWorkers = {})
    /\ [][closed' => /\ \A id \in DOMAIN ops : ops'[id].execs = ops[id].execs
                     /\ \A id \in DOMAIN ops : ops'[id].result = ops[id].result
                     /\ store' = store
                     /\ IsCall => LastOp'.ret # "ok"]_vars

\* The backend is closed after a task was executed and while another,
\* accepted before the stop, is left in the queue; a later call was refused.
C19_Witness ==
    /\ closed
    /\ \E id \in DOMAIN ops : ops[id].result = "ok"
    /\ queue # <<>>
    /\ LastOp.ret = "full"
    /\ AllWorkers("exited")

\* ==================================================================
\* Startup: Validate and NewRedisClient
\* ==================================================================
\* RedisClientConfig.Validate: the endpoint must be set and
\* MaxAsyncConcurrency must be positive; nothing else is looked at.
Validate(cfg) ==
    IF cfg.Endpoint = "" THEN "errRedisConfigNoEndpoint"
    ELSE IF cfg.MaxAsyncConcurrency <= 0
         THEN "errRedisMaxAsyncConcurrencyNotPositive"
    ELSE "ok"

\* The configurations handed to the startup: with and without an endpoint,
\* with and without TLS, async concurrency and buffer size around zero.
StartupConfigs ==
    [Endpoint : {"", "redis:6379"},
     TLSEnabled : BOOLEAN,
     MaxGetMultiConcurrency : {0},
     GetMultiBatchSize : {1},
     MaxItemSize : {0},
     MaxAsyncBufferSize : {0, 1},
     MaxAsyncConcurrency : {-1, 0, 1}]

InitStartup ==
    /\ config \in StartupConfigs
    /\ client = [validated |-> "none", state |-> "none"]
    /\ store = <<>>
    /\ call = [c \in Calls |-> IdleCall]
    /\ batches = [c \in Calls |-> <<>>]
    /\ gate = 0
    /\ metrics = [operations |-> 0, dataSize |-> EmptyBag, duration |-> 0]
    /\ ops = <<>>
    /\ queue = <<>>
    /\ workers = <<>>
    /\ stopped = FALSE
    /\ closed = FALSE
    /\ stopPc = [s \in Stoppers |-> "idle"]

\* The startup validates the configuration.
ValidateConfig ==
    /\ client.validated = "none"
    /\ client' = [client EXCEPT !.validated = Validate(config)]
    /\ UNCHANGED <<config, store, getVars, asyncVars>>

\* The startup, with a configuration Validate accepted, calls NewRedisClient:
\* it fails only when TLS is enabled and the TLS configuration cannot be
\* built; otherwise the base client (queue and workers) is made from the
\* configuration as it is and the client is returned.
NewRedisClient(tlsErr) ==
    /\ client.validated = "ok"
    /\ client.state = "none"
    /\ IF config.TLSEnabled /\ tlsErr
       THEN /\ client' = [client EXCEPT !.state = "failed"]
            /\ workers' = workers
       ELSE /\ client' = [client EXCEPT !.state = "running"]
            /\ workers' = [w \in 1..asyncConcurrency |-> IdleWorker]
    /\ UNCHANGED <<config, store, getVars, ops, queue, stopped, closed, stopPc>>

NextStartup ==
    \/ ValidateConfig
    \/ \E tlsErr \in BOOLEAN : NewRedisClient(tlsErr)
    \/ /\ client.state = "running"
       /\ NextAsync

SpecStartup == InitStartup /\ [][NextStartup]_vars

\* A configuration the specification calls invalid.
InvalidConfig ==
    \/ config.Endpoint = ""
    \/ config.MaxAsyncConcurrency <= 0
    \/ config.MaxAsyncBufferSize <= 0

\* C20: every configuration with no endpoint, a non-positive async
\* concurrency or a non-positive async buffer size is refused by Validate,
\* and NewRedisClient never yields a running client for it.
C20_InvalidConfigRefused ==
    InvalidConfig => /\ client.validated # "ok"
                     /\ client.state # "running"

\* What Validate does refuse: no endpoint and non-positive async concurrency
\* never reach a running client.
C20_EndpointAndConcurrencyChecked ==
    (config.Endpoint = "" \/ config.MaxAsyncConcurrency <= 0)
        => /\ client.validated # "ok"
           /\ client.state # "running"

=============================================================================
